---------------------------- MODULE Spec2Model ----------------------------
(***************************************************************************)
(* MedaSync (src/app.py, src/models.py): patients, doctors and             *)
(* appointments of a clinic, the availability checks that gate a booking   *)
(* and the handlers that create, edit and delete appointments.             *)
(*                                                                         *)
(* Form fields reach the handlers as text.  Text is modelled by TLA+       *)
(* strings drawn from small sets, and every parser the code applies        *)
(* (datetime.strptime, int, re.match) by what it does on those strings.    *)
(* A calendar date is the day of November 2026, a time of day the minute   *)
(* after midnight, an id the number behind its one-letter prefix.          *)
(***************************************************************************)
EXTENDS Integers, Sequences, FiniteSets, TLC

VARIABLES
    patients,   \* table patient: id -> row (models.py Patient)
    doctors,    \* table doctor: id -> row (models.py Doctor)
    appts,      \* table appointment: id -> row (models.py Appointment)
    today,      \* date.today(), as a day of November 2026
    req         \* the appointment requests in flight, one slot per worker

vars == <<patients, doctors, appts, today, req>>

-----------------------------------------------------------------------------
(* Bounds of the model. *)

MaxPatients == 1
MaxDoctors == 2
MaxAppts == 2
MaxApptId == 2
LastDay == 7
MaxSuffixLen == 3
MaxPhoneLen == 17

(* Program constants. *)

MinutesPerDay == 1440
MaxDuration == 240
MinPhoneDigits == 7
MaxPhoneDigits == 15
IdWidth == 3
FetchLimit == 100
DefaultDuration == 30

-----------------------------------------------------------------------------
(* Text and its parsers. *)

\* datetime.strptime(s, '%Y-%m-%d'): %m and %d accept one or two digits, and
\* a day the month does not have raises ValueError.
DateParses(s) == s \in {"2026-11-06", "2026-11-6", "2026-11-07"}

DateOrd(s) ==
    CASE s \in {"2026-11-06", "2026-11-6"} -> 6
      [] s = "2026-11-07" -> 7

\* datetime.strptime(.., '%H:%M'): %H is 0..23 and %M is 0..59, each in one
\* or two digits.
TimeParses(s) == s \in {"23:00", "23:30", "00:30", "0:30"}

TimeOrd(s) ==
    CASE s = "23:00" -> 23 * 60
      [] s = "23:30" -> 23 * 60 + 30
      [] s \in {"00:30", "0:30"} -> 30

\* re.match(r'^\d{2}:\d{2}$', s)
TimeMatchesPattern(s) == s \in {"23:00", "23:30", "00:30", "25:00"}

\* int(s)
IntParses(s) == s \in {"-5", "0", "1", "30", "90", "240", "241"}

IntOf(s) ==
    CASE s = "-5" -> 0 - 5
      [] s = "0" -> 0
      [] s = "1" -> 1
      [] s = "30" -> 30
      [] s = "90" -> 90
      [] s = "240" -> 240
      [] s = "241" -> 241

\* datetime.strptime(f"{d} {t}", "%Y-%m-%d %H:%M"), in minutes since the
\* start of November 2026; adding timedelta(minutes=n) adds n.
DateTimeParses(d, t) == DateParses(d) /\ TimeParses(t)

DateTimeOrd(d, t) == DateOrd(d) * MinutesPerDay + TimeOrd(t)

-----------------------------------------------------------------------------
(* Helper functions of src/app.py. *)

None == 0    \* no row, no id: ids are numbered from 1

\* the decimal digits of n, most significant first
RECURSIVE Decimal(_)
Decimal(n) == IF n < 10 THEN <<n>> ELSE Append(Decimal(n \div 10), n % 10)

\* f"{number:03d}": at least IdWidth digits, zero-padded on the left
RECURSIVE ZeroPad(_)
ZeroPad(ds) == IF Len(ds) >= IdWidth THEN ds ELSE ZeroPad(<<0>> \o ds)

IdText(n) == ZeroPad(Decimal(n))

\* the order of two texts made of digits, as strings are ordered
RECURSIVE TextLess(_, _)
TextLess(a, b) ==
    IF b = <<>> THEN FALSE
    ELSE IF a = <<>> THEN TRUE
    ELSE IF Head(a) # Head(b) THEN Head(a) < Head(b)
    ELSE TextLess(Tail(a), Tail(b))

\* select(T).order_by(T.id.desc()).limit(1): the row whose id text sorts
\* last, None for an empty table
LastId(ids) ==
    IF ids = {} THEN None
    ELSE CHOOSE m \in ids : \A n \in ids : n = m \/ TextLess(IdText(n), IdText(m))

\* generate_id(prefix, last_id): the number behind the prefix
generate_id(last_id) == IF last_id # None THEN last_id + 1 ELSE 1

Digits == {"0", "1", "2", "3", "4", "5", "6", "7", "8", "9"}

IsDigit(c) == c \in Digits

\* generate_id on the id texts themselves; a text is a sequence of
\* one-character strings and <<>> is None (or ""), both false in `if last_id`.

DigitChars == <<"0", "1", "2", "3", "4", "5", "6", "7", "8", "9">>

DigitValue(c) == (CHOOSE i \in 1..10 : DigitChars[i] = c) - 1

\* str.strip() of the blanks int() ignores around the number
RECURSIVE StripLeft(_)
StripLeft(cs) ==
    IF cs # <<>> /\ Head(cs) = " " THEN StripLeft(Tail(cs)) ELSE cs

RECURSIVE StripRight(_)
StripRight(cs) ==
    IF cs # <<>> /\ cs[Len(cs)] = " " THEN StripRight(SubSeq(cs, 1, Len(cs) - 1)) ELSE cs

\* the number after the blanks, without its sign
Unsigned(cs) ==
    LET body == StripRight(StripLeft(cs))
    IN  IF body # <<>> /\ Head(body) \in {"+", "-"} THEN Tail(body) ELSE body

IsNegative(cs) ==
    LET body == StripRight(StripLeft(cs))
    IN  body # <<>> /\ Head(body) = "-"

\* int(text) returns: blanks around, one optional sign, then digits with
\* single underscores between them; anything else raises ValueError
IntTextParses(cs) ==
    LET ds == Unsigned(cs)
    IN  /\ ds # <<>>
        /\ \A i \in 1..Len(ds) : IsDigit(ds[i]) \/ ds[i] = "_"
        /\ IsDigit(ds[1]) /\ IsDigit(ds[Len(ds)])
        /\ \A i \in 1..(Len(ds) - 1) : ~(ds[i] = "_" /\ ds[i + 1] = "_")

RECURSIVE DigitsValue(_)
DigitsValue(ds) ==
    IF ds = <<>> THEN 0
    ELSE 10 * DigitsValue(SubSeq(ds, 1, Len(ds) - 1)) + DigitValue(ds[Len(ds)])

IntTextValue(cs) ==
    LET n == DigitsValue(SelectSeq(Unsigned(cs), IsDigit))
    IN  IF IsNegative(cs) THEN 0 - n ELSE n

\* the decimal digits of a natural number as characters
RECURSIVE DecimalText(_)
DecimalText(n) ==
    IF n < 10 THEN <<DigitChars[n + 1]>>
    ELSE Append(DecimalText(n \div 10), DigitChars[(n % 10) + 1])

RECURSIVE PadText(_, _)
PadText(cs, width) == IF Len(cs) >= width THEN cs ELSE PadText(<<"0">> \o cs, width)

\* the format one digit narrower
FormatId_Narrow(number) ==
    IF number < 0 THEN <<"-">> \o PadText(DecimalText(0 - number), IdWidth - 2)
    ELSE PadText(DecimalText(number), IdWidth - 1)

\* f"{number:03d}": the sign, if any, counts in the width
FormatId(number) ==
    IF number < 0 THEN <<"-">> \o PadText(DecimalText(0 - number), IdWidth - 1)
    ELSE PadText(DecimalText(number), IdWidth)

\* what a call of generate_id that raises leaves: no id
ValueError == <<"ValueError">>

generate_id_text(prefix, last_id) ==
    IF last_id # <<>>
    THEN IF IntTextParses(Tail(last_id))
         THEN <<prefix>> \o FormatId(IntTextValue(Tail(last_id)) + 1)
         ELSE ValueError
    ELSE <<prefix>> \o FormatId(1)

\* format_phone_number that stores the number as it was typed
format_phone_number_AsTyped(phone_number) == phone_number

\* re.sub(r'[^\d]', '', phone_number); a phone number is a sequence of
\* one-character strings
format_phone_number(phone_number) == SelectSeq(phone_number, IsDigit)

\* validate_phone_number that counts the characters as they were typed
validate_phone_number_NoStrip(phone_number) ==
    /\ phone_number # <<>>
    /\ Len(phone_number) >= MinPhoneDigits
    /\ Len(phone_number) <= MaxPhoneDigits

validate_phone_number(phone_number) ==
    /\ phone_number # <<>>
    /\ Len(format_phone_number(phone_number)) >= MinPhoneDigits
    /\ Len(format_phone_number(phone_number)) <= MaxPhoneDigits

COUNTRY_CODES ==
    {"+264", "+27", "+263", "+267", "+260", "+258", "+256", "+254", "+255", "+234"}

validate_country_code(country_code) ==
    /\ country_code # ""
    /\ country_code \in COUNTRY_CODES

\* the overlap test of is_doctor_available and is_patient_available
Overlaps(appt_datetime, appt_end, existing_start, existing_end) ==
    appt_datetime < existing_end /\ appt_end > existing_start

ExistingStart(a) == DateTimeOrd(a.date, a.time)

ExistingEnd(a) == ExistingStart(a) + a.duration

\* is_doctor_available without the test of line 88: the appointment being
\* edited is compared with the candidate like every other row
is_doctor_available_NoExclude(table, doctor_id, appt_date, appt_time, duration, exclude_appt_id) ==
    LET appt_datetime == DateTimeOrd(appt_date, appt_time)
        appt_end == appt_datetime + duration
        appointments == {i \in DOMAIN table :
                            /\ table[i].doctor_id = doctor_id
                            /\ table[i].date = appt_date}
    IN  \A i \in appointments :
            ~Overlaps(appt_datetime, appt_end,
                      ExistingStart(table[i]), ExistingEnd(table[i]))

\* is_doctor_available over the rows of `table`; exclude_appt_id is None when
\* the caller passes none.  Defined when the date and the time parse.
is_doctor_available(table, doctor_id, appt_date, appt_time, duration, exclude_appt_id) ==
    LET appt_datetime == DateTimeOrd(appt_date, appt_time)
        appt_end == appt_datetime + duration
        appointments == {i \in DOMAIN table :
                            /\ table[i].doctor_id = doctor_id
                            /\ table[i].date = appt_date}
    IN  \A i \in appointments :
            \/ (exclude_appt_id # None /\ i = exclude_appt_id)
            \/ ~Overlaps(appt_datetime, appt_end,
                         ExistingStart(table[i]), ExistingEnd(table[i]))

\* the results select(...).limit(100) may return: every matching row, or any
\* FetchLimit of them when there are more (the statement has no ORDER BY)
PatientFetches(table, patient_id, appt_date) ==
    LET matching == {i \in DOMAIN table :
                        /\ table[i].patient_id = patient_id
                        /\ table[i].date = appt_date}
    IN  IF Cardinality(matching) <= FetchLimit THEN {matching}
        ELSE {S \in SUBSET matching : Cardinality(S) = FetchLimit}

\* is_patient_available, given the rows `appointments` its query returned
is_patient_available(table, appointments, appt_date, appt_time, duration, exclude_appt_id) ==
    LET appt_datetime == DateTimeOrd(appt_date, appt_time)
        appt_end == appt_datetime + duration
    IN  \A i \in appointments :
            \/ (exclude_appt_id # None /\ i = exclude_appt_id)
            \/ ~Overlaps(appt_datetime, appt_end,
                         ExistingStart(table[i]), ExistingEnd(table[i]))

-----------------------------------------------------------------------------
(* The requests the model submits. *)

DateTexts == {"2026-11-06", "2026-11-6", "2026-11-07", "2026-11-31"}

TimeTexts == {"23:00", "23:30", "00:30", "0:30", "25:00"}

DurationTexts == {"0", "30", "90", "abc"}

DiagnosisTexts == {"flu"}

PatientIds == 1..MaxPatients

DoctorIds == 1..MaxDoctors

ApptIds == 1..MaxApptId

\* the last id that fits IdWidth digits, and the ids of a table that has
\* grown to it
LastShortId == 10^IdWidth - 1

LateApptIds == LastShortId..(LastShortId + MaxApptId - 1)

ApptForms ==
    [date : DateTexts, time : TimeTexts, duration : DurationTexts,
     diagnosis : DiagnosisTexts, patient_id : PatientIds, doctor_id : DoctorIds]

\* The forms the requests of a behaviour carry: every form whose date, time
\* and duration the parsers accept, and one form for each text they refuse.
\* A form every handler refuses changes no table.
WellFormed(form) ==
    /\ DateParses(form.date)
    /\ TimeParses(form.time) /\ TimeMatchesPattern(form.time)
    /\ IntParses(form.duration)
    /\ IntOf(form.duration) >= 1 /\ IntOf(form.duration) <= MaxDuration

SubmittedForms ==
    {form \in ApptForms : WellFormed(form)}
    \cup {form \in ApptForms :
            /\ form.patient_id = 1 /\ form.doctor_id = 1
            /\ \/ ~DateParses(form.date) /\ form.time = "23:00" /\ form.duration = "30"
               \/ form.date = "2026-11-07" /\ form.duration = "30"
                  /\ (~TimeParses(form.time) \/ ~TimeMatchesPattern(form.time))
               \/ form.date = "2026-11-07" /\ form.time = "23:00"
                  /\ form.duration \in {"0", "abc"}}

\* every form a claim speaks of: the forms above, for the patients and the
\* doctors of any of the specifications
AllForms ==
    [date : DateTexts, time : TimeTexts, duration : DurationTexts,
     diagnosis : DiagnosisTexts, patient_id : 1..2, doctor_id : 1..2]

ShortPhone == <<"1", "2", "3">>

LocalPhone == <<"8", "1", "2", "3", "4", "5", "6", "7", "8">>

PersonForms ==
    [name : {"Ann"}, date_of_birth : {"2026-11-06", "2026-11-07"},
     country_code : {"+264"}, contact_number : {LocalPhone, ShortPhone}]

Workers == {1, 2}

Idle == [pc |-> "idle"]

-----------------------------------------------------------------------------
(* State after construction: db.create_all() on an empty database. *)

Init ==
    /\ patients = <<>>
    /\ doctors = <<>>
    /\ appts = <<>>
    /\ today = 6
    /\ req = [w \in Workers |-> Idle]

\* table with row r stored under id i
Put(table, i, r) == [j \in DOMAIN table \cup {i} |-> IF j = i THEN r ELSE table[j]]

\* table without the rows whose ids are in gone
Without(table, gone) == [j \in DOMAIN table \ gone |-> table[j]]

-----------------------------------------------------------------------------
(* Patients and doctors. *)

\* session_db.add(row); session_db.commit(): the primary key refuses an id
\* the table already holds (IntegrityError)
InsertResult(table, id) == IF id \in DOMAIN table THEN "Error" ELSE "Ok"

PatientRow(form) ==
    [name |-> form.name, date_of_birth |-> form.date_of_birth,
     country_code |-> form.country_code,
     contact_number |-> format_phone_number(form.contact_number)]

NextPatientId == generate_id(LastId(DOMAIN patients))

\* what add_patient answers: the first failing check, "Error" for an
\* exception nothing catches, "Ok" for a committed insert
AddPatientResult(form) ==
    IF ~validate_country_code(form.country_code) THEN "InvalidCountryCode"
    ELSE IF ~validate_phone_number(form.contact_number) THEN "InvalidPhone"
    ELSE IF ~DateParses(form.date_of_birth) THEN "Error"
    ELSE IF DateOrd(form.date_of_birth) > today THEN "FutureBirthDate"
    ELSE InsertResult(patients, NextPatientId)

add_patient(form) ==
    LET res == AddPatientResult(form)
        patient_id == NextPatientId
    IN  /\ res = "Ok" => patient_id <= MaxPatients
        /\ patients' = IF res = "Ok" THEN Put(patients, patient_id, PatientRow(form)) ELSE patients
        /\ UNCHANGED <<doctors, appts, today, req>>

DoctorRow(form) ==
    [name |-> form.name, country_code |-> form.country_code,
     contact_number |-> format_phone_number(form.contact_number)]

NextDoctorId == generate_id(LastId(DOMAIN doctors))

AddDoctorResult(form) ==
    IF ~validate_country_code(form.country_code) THEN "InvalidCountryCode"
    ELSE IF ~validate_phone_number(form.contact_number) THEN "InvalidPhone"
    ELSE InsertResult(doctors, NextDoctorId)

add_doctor(form) ==
    LET res == AddDoctorResult(form)
        doctor_id == NextDoctorId
    IN  /\ res = "Ok" => doctor_id <= MaxDoctors
        /\ doctors' = IF res = "Ok" THEN Put(doctors, doctor_id, DoctorRow(form)) ELSE doctors
        /\ UNCHANGED <<patients, appts, today, req>>

\* delete_patient: the patient's appointments, then the patient, one commit
delete_patient(patient_id) ==
    IF patient_id \notin DOMAIN patients
    THEN UNCHANGED vars
    ELSE /\ appts' = Without(appts, {i \in DOMAIN appts : appts[i].patient_id = patient_id})
         /\ patients' = Without(patients, {patient_id})
         /\ UNCHANGED <<doctors, today, req>>

\* delete_doctor that leaves the doctor's appointments
delete_doctor_NoCascade(doctor_id) ==
    IF doctor_id \notin DOMAIN doctors
    THEN UNCHANGED vars
    ELSE /\ doctors' = Without(doctors, {doctor_id})
         /\ UNCHANGED <<patients, appts, today, req>>

delete_doctor(doctor_id) ==
    IF doctor_id \notin DOMAIN doctors
    THEN UNCHANGED vars
    ELSE /\ appts' = Without(appts, {i \in DOMAIN appts : appts[i].doctor_id = doctor_id})
         /\ doctors' = Without(doctors, {doctor_id})
         /\ UNCHANGED <<patients, today, req>>

-----------------------------------------------------------------------------
(* Appointments. *)

\* the date comparison off by one day: yesterday is not past
IsPast_OffByOne(appointment_date) == appointment_date < today - 1

\* appointment_date < date.today()
IsPast(appointment_date) == appointment_date < today

AppointmentRow(form) ==
    [date |-> form.date, time |-> form.time, duration |-> IntOf(form.duration),
     diagnosis |-> form.diagnosis, patient_id |-> form.patient_id,
     doctor_id |-> form.doctor_id]

\* add_appointment with the duration range checked before the date
AddAppointmentChecks_DurationFirst(table, form) ==
    IF ~IntParses(form.duration) THEN "Error"
    ELSE IF form.patient_id \notin DOMAIN patients THEN "PatientNotFound"
    ELSE IF form.doctor_id \notin DOMAIN doctors THEN "DoctorNotFound"
    ELSE IF IntOf(form.duration) <= 0 \/ IntOf(form.duration) > MaxDuration
         THEN "InvalidDuration"
    ELSE IF ~DateParses(form.date) THEN "Error"
    ELSE IF IsPast(DateOrd(form.date)) THEN "PastDate"
    ELSE IF ~TimeMatchesPattern(form.time) THEN "InvalidTimeFormat"
    ELSE IF ~DateTimeParses(form.date, form.time) THEN "Error"
    ELSE IF ~is_doctor_available(table, form.doctor_id, form.date, form.time,
                                 IntOf(form.duration), None)
         THEN "DoctorUnavailable"
    ELSE "Ok"

\* add_appointment with the upper limit of the duration off by one
AddAppointmentChecks_Below(table, form) ==
    IF ~IntParses(form.duration) THEN "Error"
    ELSE IF form.patient_id \notin DOMAIN patients THEN "PatientNotFound"
    ELSE IF form.doctor_id \notin DOMAIN doctors THEN "DoctorNotFound"
    ELSE IF ~DateParses(form.date) THEN "Error"
    ELSE IF IsPast(DateOrd(form.date)) THEN "PastDate"
    ELSE IF IntOf(form.duration) <= 0 \/ IntOf(form.duration) >= MaxDuration
         THEN "InvalidDuration"
    ELSE IF ~TimeMatchesPattern(form.time) THEN "InvalidTimeFormat"
    ELSE IF ~DateTimeParses(form.date, form.time) THEN "Error"
    ELSE IF ~is_doctor_available(table, form.doctor_id, form.date, form.time,
                                 IntOf(form.duration), None)
         THEN "DoctorUnavailable"
    ELSE "Ok"

\* add_appointment from the form to the availability check (lines 752-789)
\* against the rows of `table`: the first check that fails, "Error" for an
\* exception nothing catches, "Ok" when every check passes
AddAppointmentChecks(table, form) ==
    IF ~IntParses(form.duration) THEN "Error"
    ELSE IF form.patient_id \notin DOMAIN patients THEN "PatientNotFound"
    ELSE IF form.doctor_id \notin DOMAIN doctors THEN "DoctorNotFound"
    ELSE IF ~DateParses(form.date) THEN "Error"
    ELSE IF IsPast(DateOrd(form.date)) THEN "PastDate"
    ELSE IF IntOf(form.duration) <= 0 \/ IntOf(form.duration) > MaxDuration
         THEN "InvalidDuration"
    ELSE IF ~TimeMatchesPattern(form.time) THEN "InvalidTimeFormat"
    ELSE IF ~DateTimeParses(form.date, form.time) THEN "Error"
    ELSE IF ~is_doctor_available(table, form.doctor_id, form.date, form.time,
                                 IntOf(form.duration), None)
         THEN "DoctorUnavailable"
    ELSE "Ok"

\* the id add_appointment gives the new row (lines 791-794)
NextAppointmentId == generate_id(LastId(DOMAIN appts))

\* what add_appointment answers to the form in the current state
AddAppointmentResult(form) ==
    LET checks == AddAppointmentChecks(appts, form)
    IN  IF checks # "Ok" THEN checks ELSE InsertResult(appts, NextAppointmentId)

\* add_appointment that inserts the row before it asks whether the doctor is
\* free
add_appointment_InsertFirst(form) ==
    LET res == AddAppointmentResult(form)
        appointment_id == NextAppointmentId
        written == res \in {"Ok", "DoctorUnavailable"}
    IN  /\ written => /\ appointment_id \in ApptIds \cup LateApptIds
                      /\ Cardinality(DOMAIN appts) < MaxAppts
        /\ appts' = IF written THEN Put(appts, appointment_id, AppointmentRow(form))
                    ELSE appts
        /\ UNCHANGED <<patients, doctors, today, req>>

add_appointment(form) ==
    LET res == AddAppointmentResult(form)
        appointment_id == NextAppointmentId
    IN  /\ res = "Ok" => /\ appointment_id \in ApptIds \cup LateApptIds
                         /\ Cardinality(DOMAIN appts) < MaxAppts
        /\ appts' = IF res = "Ok" THEN Put(appts, appointment_id, AppointmentRow(form))
                    ELSE appts
        /\ UNCHANGED <<patients, doctors, today, req>>

\* the place of a date text in the order of strings, which is the order the
\* listing queries compare and sort dates in: '2026-11-6' comes after every
\* two-digit day that starts with 0 to 5
DateTextRank(s) ==
    CASE s = "2026-11-06" -> 60
      [] s = "2026-11-07" -> 70
      [] s = "2026-11-6" -> 599

\* date.today().strftime("%Y-%m-%d"): two digits for the day
TodayTextRank == today * 10

\* view_patient: the ids of the three listings; none when the patient is not
\* found
view_patient(patient_id) ==
    LET mine == IF patient_id \in DOMAIN patients
                THEN {i \in DOMAIN appts : appts[i].patient_id = patient_id}
                ELSE {}
    IN  [appointments |-> mine,
         upcoming_appointments |->
            {i \in mine : DateTextRank(appts[i].date) >= TodayTextRank},
         past_appointments |->
            {i \in mine : DateTextRank(appts[i].date) < TodayTextRank}]

\* view_doctor: the same three listings for a doctor
view_doctor(doctor_id) ==
    LET mine == IF doctor_id \in DOMAIN doctors
                THEN {i \in DOMAIN appts : appts[i].doctor_id = doctor_id}
                ELSE {}
    IN  [appointments |-> mine,
         upcoming_appointments |->
            {i \in mine : DateTextRank(appts[i].date) >= TodayTextRank},
         past_appointments |->
            {i \in mine : DateTextRank(appts[i].date) < TodayTextRank}]

\* the place of a time text in the order of strings: '0:30' comes after
\* '00:30' (':' sorts after '0') and before '23:00'
TimeTextRank(s) ==
    CASE s = "00:30" -> 30
      [] s = "0:30" -> 31
      [] s = "23:00" -> 2300
      [] s = "23:30" -> 2330

\* order_by(Appointment.date.desc(), Appointment.time.desc()): row i may come
\* before row j
MayPrecede(i, j) ==
    \/ DateTextRank(appts[i].date) > DateTextRank(appts[j].date)
    \/ /\ DateTextRank(appts[i].date) = DateTextRank(appts[j].date)
       /\ TimeTextRank(appts[i].time) >= TimeTextRank(appts[j].time)

\* the lists a listing query can return for the rows `ids`: every
\* arrangement in that order, rows with equal date and time in any order
ListingOrders(ids) ==
    {seq \in [1..Cardinality(ids) -> ids] :
        /\ \A k, l \in 1..Cardinality(ids) : k # l => seq[k] # seq[l]
        /\ \A k, l \in 1..Cardinality(ids) : k < l => MayPrecede(seq[k], seq[l])}

\* delete_appointment whose delete is never committed
delete_appointment_NoCommit(appointment_id) == UNCHANGED vars

DeleteAppointmentResult(appointment_id) ==
    IF appointment_id \in DOMAIN appts THEN "Ok" ELSE "NotFound"

delete_appointment(appointment_id) ==
    /\ appts' = Without(appts, {appointment_id})
    /\ UNCHANGED <<patients, doctors, today, req>>

\* edit_appointment that reads the form before it looks the appointment up
EditAppointmentChecks_FormFirst(table, appointment_id, form, fetched) ==
    IF ~IntParses(form.duration) THEN "Error"
    ELSE IF appointment_id \notin DOMAIN table THEN "NotFound"
    ELSE IF ~DateParses(form.date) THEN "Error"
    ELSE IF IsPast(DateOrd(form.date)) THEN "PastDate"
    ELSE IF IntOf(form.duration) <= 0 \/ IntOf(form.duration) > MaxDuration
         THEN "InvalidDuration"
    ELSE IF ~DateTimeParses(form.date, form.time) THEN "Error"
    ELSE IF ~is_doctor_available(table, form.doctor_id, form.date, form.time,
                                 IntOf(form.duration), appointment_id)
         THEN "DoctorUnavailable"
    ELSE IF ~is_patient_available(table, fetched, form.date, form.time,
                                  IntOf(form.duration), appointment_id)
         THEN "PatientUnavailable"
    ELSE "Ok"

\* edit_appointment from the form to the availability checks (lines 832-868)
\* against the rows of `table`, given the rows `fetched` the patient query
\* returned
EditAppointmentChecks(table, appointment_id, form, fetched) ==
    IF appointment_id \notin DOMAIN table THEN "NotFound"
    ELSE IF ~IntParses(form.duration) THEN "Error"
    ELSE IF ~DateParses(form.date) THEN "Error"
    ELSE IF IsPast(DateOrd(form.date)) THEN "PastDate"
    ELSE IF IntOf(form.duration) <= 0 \/ IntOf(form.duration) > MaxDuration
         THEN "InvalidDuration"
    ELSE IF ~DateTimeParses(form.date, form.time) THEN "Error"
    ELSE IF ~is_doctor_available(table, form.doctor_id, form.date, form.time,
                                 IntOf(form.duration), appointment_id)
         THEN "DoctorUnavailable"
    ELSE IF ~is_patient_available(table, fetched, form.date, form.time,
                                  IntOf(form.duration), appointment_id)
         THEN "PatientUnavailable"
    ELSE "Ok"

\* the answers edit_appointment can give in the current state, one for each
\* result the patient query can return
EditAppointmentResults(appointment_id, form) ==
    {EditAppointmentChecks(appts, appointment_id, form, fetched) :
        fetched \in PatientFetches(appts, form.patient_id, form.date)}

\* the UPDATE without doctor_id among its values
UpdateRows_KeepsDoctor(table, appointment_id, form) ==
    [j \in DOMAIN table |->
        IF j = appointment_id
        THEN [AppointmentRow(form) EXCEPT !.doctor_id = table[j].doctor_id]
        ELSE table[j]]

\* update(Appointment).where(Appointment.id == appointment_id).values(...):
\* every row with that id, none when there is none
UpdateRows(table, appointment_id, form) ==
    [j \in DOMAIN table |-> IF j = appointment_id THEN AppointmentRow(form) ELSE table[j]]

edit_appointment(appointment_id, form) ==
    \E res \in EditAppointmentResults(appointment_id, form) :
        /\ appts' = IF res = "Ok" THEN UpdateRows(appts, appointment_id, form)
                    ELSE appts
        /\ UNCHANGED <<patients, doctors, today, req>>

\* check_availability reads the store and writes nothing.  A key the request
\* does not carry is None for the ids and NoDuration for the duration; an
\* empty date or time is the text "".
NoDuration == "(none)"

\* check_availability, given the rows `fetched` the patient query returns:
\* the JSON body it answers with
check_availability(doctor_id, patient_id, date_str, time_str, duration, fetched) ==
    IF date_str = "" \/ time_str = "" THEN [error |-> "missing_date_or_time"]
    ELSE IF duration # NoDuration /\ ~IntParses(duration)
         THEN [error |-> "invalid_duration"]
    ELSE LET dur == IF duration # NoDuration THEN IntOf(duration) ELSE DefaultDuration
             doctor_ok ==
                IF doctor_id # None
                THEN IF DateTimeParses(date_str, time_str)
                     THEN is_doctor_available(appts, doctor_id, date_str, time_str,
                                              dur, None)
                     ELSE FALSE
                ELSE TRUE
             patient_ok ==
                IF patient_id # None
                THEN IF DateTimeParses(date_str, time_str)
                     THEN is_patient_available(appts, fetched, date_str, time_str,
                                               dur, None)
                     ELSE FALSE
                ELSE TRUE
         IN  [doctor_available |-> doctor_ok, patient_available |-> patient_ok]

CheckAvailabilityResults(doctor_id, patient_id, date_str, time_str, duration) ==
    {check_availability(doctor_id, patient_id, date_str, time_str, duration, fetched) :
        fetched \in PatientFetches(appts, patient_id, date_str)}

\* the calendar: date.today() moves on
NextDay ==
    /\ today < LastDay
    /\ today' = today + 1
    /\ UNCHANGED <<patients, doctors, appts, req>>

-----------------------------------------------------------------------------
(* One request at a time: every handler runs from its first line to its    *)
(* commit before the next request starts.                                  *)

PeopleRequests ==
    \/ \E form \in PersonForms : add_patient(form)
    \/ \E form \in PersonForms : add_doctor(form)
    \/ \E id \in PatientIds : delete_patient(id)
    \/ \E id \in DoctorIds : delete_doctor(id)

AppointmentRequests(ids, forms) ==
    \/ \E form \in forms : add_appointment(form)
    \/ \E id \in ids, form \in forms : edit_appointment(id, form)
    \/ \E id \in ids : delete_appointment(id)

Next ==
    \/ PeopleRequests
    \/ AppointmentRequests(ApptIds, SubmittedForms)
    \/ NextDay

Spec == Init /\ [][Next]_vars

-----------------------------------------------------------------------------
(* A clinic at work: two patients and two doctors are registered, and the  *)
(* requests are the appointment requests.                                  *)

ClinicPatients == 1..2

ClinicDoctors == 1..2

ClinicPatient ==
    [name |-> "Ann", date_of_birth |-> "2026-11-06", country_code |-> "+264",
     contact_number |-> LocalPhone]

ClinicDoctor == [name |-> "Ben", country_code |-> "+264", contact_number |-> LocalPhone]

ClinicForms ==
    {form \in [date : DateTexts, time : TimeTexts, duration : DurationTexts,
               diagnosis : DiagnosisTexts, patient_id : ClinicPatients,
               doctor_id : ClinicDoctors] : WellFormed(form)}
    \cup SubmittedForms

InitClinic ==
    /\ patients = [i \in ClinicPatients |-> ClinicPatient]
    /\ doctors = [i \in ClinicDoctors |-> ClinicDoctor]
    /\ appts = <<>>
    /\ today = 6
    /\ req = [w \in Workers |-> Idle]

NextClinic == AppointmentRequests(ApptIds, ClinicForms)

SpecClinic == InitClinic /\ [][NextClinic]_vars

-----------------------------------------------------------------------------
(* A clinic later in its life: one patient and two doctors, and the        *)
(* appointment table has grown to the last id of IdWidth digits, the       *)
(* earlier rows deleted.                                                   *)

InitLate ==
    /\ patients = [i \in PatientIds |-> ClinicPatient]
    /\ doctors = [i \in DoctorIds |-> ClinicDoctor]
    /\ appts = [i \in {LastShortId} |->
                  [date |-> "2026-11-06", time |-> "23:00", duration |-> 30,
                   diagnosis |-> "flu", patient_id |-> 1, doctor_id |-> 1]]
    /\ today = 6
    /\ req = [w \in Workers |-> Idle]

NextLate == AppointmentRequests(LateApptIds, SubmittedForms)

SpecLate == InitLate /\ [][NextLate]_vars

-----------------------------------------------------------------------------
(* Two requests at a time: the server answers each request on a thread of  *)
(* its own, and a handler's queries and its commit are separate statements *)
(* on the database, with no lock and no transaction around the             *)
(* availability query and the write.  A step is one statement.             *)

ConcForms ==
    [date : {"2026-11-06"}, time : {"23:00", "23:30"}, duration : {"30", "90"},
     diagnosis : DiagnosisTexts, patient_id : PatientIds, doctor_id : DoctorIds]

\* add_appointment, lines 752-789: the form is read and checked against the
\* rows the availability query returns now; a refused request ends here
add_appointment_check(w, form) ==
    /\ req[w].pc = "idle"
    /\ AddAppointmentChecks(appts, form) = "Ok"
    /\ req' = [req EXCEPT ![w] = [pc |-> "checked", kind |-> "add",
                                  id |-> None, form |-> form]]
    /\ UNCHANGED <<patients, doctors, appts, today>>

\* add_appointment, lines 791-794: the last id is read and the next one made
add_appointment_allocate(w) ==
    /\ req[w].pc = "checked"
    /\ req[w].kind = "add"
    /\ NextAppointmentId \in ApptIds
    /\ req' = [req EXCEPT ![w].pc = "allocated", ![w].id = NextAppointmentId]
    /\ UNCHANGED <<patients, doctors, appts, today>>

\* add_appointment, lines 796-807: the row is inserted and committed; the
\* commit raises IntegrityError when the id has been taken meanwhile
add_appointment_insert(w) ==
    /\ req[w].pc = "allocated"
    /\ appts' = IF InsertResult(appts, req[w].id) = "Ok"
                THEN Put(appts, req[w].id, AppointmentRow(req[w].form))
                ELSE appts
    /\ req' = [req EXCEPT ![w] = Idle]
    /\ UNCHANGED <<patients, doctors, today>>

\* edit_appointment, lines 832-868: the row is fetched, the form is read and
\* checked against the rows the availability queries return now
edit_appointment_check(w, appointment_id, form) ==
    /\ req[w].pc = "idle"
    /\ "Ok" \in EditAppointmentResults(appointment_id, form)
    /\ req' = [req EXCEPT ![w] = [pc |-> "checked", kind |-> "edit",
                                  id |-> appointment_id, form |-> form]]
    /\ UNCHANGED <<patients, doctors, appts, today>>

\* edit_appointment, lines 870-881: the UPDATE and its commit
edit_appointment_update(w) ==
    /\ req[w].pc = "checked"
    /\ req[w].kind = "edit"
    /\ appts' = UpdateRows(appts, req[w].id, req[w].form)
    /\ req' = [req EXCEPT ![w] = Idle]
    /\ UNCHANGED <<patients, doctors, today>>

InitConc ==
    /\ patients = [i \in PatientIds |-> ClinicPatient]
    /\ doctors = [i \in DoctorIds |-> ClinicDoctor]
    /\ appts = <<>>
    /\ today = 6
    /\ req = [w \in Workers |-> Idle]

NextConc ==
    \E w \in Workers :
        \/ \E form \in ConcForms : add_appointment_check(w, form)
        \/ add_appointment_allocate(w)
        \/ add_appointment_insert(w)
        \/ \E id \in ApptIds, form \in ConcForms : edit_appointment_check(w, id, form)
        \/ edit_appointment_update(w)

SpecConc == InitConc /\ [][NextConc]_vars

-----------------------------------------------------------------------------
(* The id allocator alone: generate_id is called with a prefix and a last  *)
(* id, None or any text of a prefix and up to MaxSuffixLen characters.     *)

Prefixes == {"P", "D", "A"}

SuffixChars == {"0", "7", "9", "+", "-", "_", " ", "x"}

SuffixTexts == UNION {[1..n -> SuffixChars] : n \in 0..MaxSuffixLen}

LastIdTexts(prefix) == {<<>>} \cup {<<prefix>> \o suffix : suffix \in SuffixTexts}

generate_id_call(w) ==
    /\ req[w].pc = "call"
    /\ req' = [req EXCEPT ![w] =
                [pc |-> "returned", prefix |-> req[w].prefix, last_id |-> req[w].last_id,
                 id |-> generate_id_text(req[w].prefix, req[w].last_id)]]
    /\ UNCHANGED <<patients, doctors, appts, today>>

InitIds ==
    /\ patients = <<>>
    /\ doctors = <<>>
    /\ appts = <<>>
    /\ today = 6
    /\ \E prefix \in Prefixes : \E last_id \in LastIdTexts(prefix) :
            req = [w \in Workers |->
                    IF w = 1 THEN [pc |-> "call", prefix |-> prefix, last_id |-> last_id]
                    ELSE Idle]

NextIds == \E w \in Workers : generate_id_call(w)

SpecIds == InitIds /\ [][NextIds]_vars

-----------------------------------------------------------------------------
(* The phone helpers alone: validate_phone_number and format_phone_number  *)
(* are called with numbers of 0 to MaxPhoneLen digits, typed plainly, with *)
(* a leading '+', with dashes, with blanks, or with a letter.              *)

PhoneDigits(n) == [i \in 1..n |-> DigitChars[(i % 10) + 1]]

\* a separator after every digit
Separated(ds, sep) ==
    [i \in 1..(2 * Len(ds)) |-> IF i % 2 = 1 THEN ds[(i + 1) \div 2] ELSE sep]

PhoneStyles == {"plain", "plus", "dashes", "blanks", "plus blanks", "letter"}

Typed(n, style) ==
    CASE style = "plain" -> PhoneDigits(n)
      [] style = "plus" -> <<"+">> \o PhoneDigits(n)
      [] style = "dashes" -> Separated(PhoneDigits(n), "-")
      [] style = "blanks" -> Separated(PhoneDigits(n), " ")
      [] style = "plus blanks" -> <<"+">> \o Separated(PhoneDigits(n), " ")
      [] style = "letter" -> Append(PhoneDigits(n), "x")

PhoneTexts == {Typed(n, style) : n \in 0..MaxPhoneLen, style \in PhoneStyles}

phone_call(w) ==
    /\ req[w].pc = "call"
    /\ req' = [req EXCEPT ![w] =
                [pc |-> "returned", phone_number |-> req[w].phone_number,
                 valid |-> validate_phone_number(req[w].phone_number),
                 formatted |-> format_phone_number(req[w].phone_number)]]
    /\ UNCHANGED <<patients, doctors, appts, today>>

InitPhones ==
    /\ patients = <<>>
    /\ doctors = <<>>
    /\ appts = <<>>
    /\ today = 6
    /\ \E phone_number \in PhoneTexts :
            req = [w \in Workers |->
                    IF w = 1 THEN [pc |-> "call", phone_number |-> phone_number]
                    ELSE Idle]

NextPhones == \E w \in Workers : phone_call(w)

SpecPhones == InitPhones /\ [][NextPhones]_vars

-----------------------------------------------------------------------------
(* A listing beside updates: view_patient runs its three queries as three  *)
(* statements of one session while another request updates an appointment. *)
(* Worker 1 lists, worker 2 updates and keeps the record of every row it   *)
(* has committed.                                                          *)

ViewForms ==
    [date : {"2026-11-07"}, time : {"23:00", "23:30"}, duration : {"30"},
     diagnosis : DiagnosisTexts, patient_id : ClinicPatients, doctor_id : {1}]

ViewFirstRow ==
    [date |-> "2026-11-06", time |-> "23:00", duration |-> 30,
     diagnosis |-> "flu", patient_id |-> 1, doctor_id |-> 1]

\* the objects a query of the session returns for the rows `ids`: the object
\* the session already holds for a row it has loaded, a new object with the
\* row's present values for a row it has not
LoadFresh(loaded, ids) == [i \in ids |-> appts[i]]

Load(loaded, ids) ==
    [i \in ids |-> IF i \in DOMAIN loaded THEN loaded[i] ELSE appts[i]]

\* the objects the session holds after the query
Loaded(loaded, ids) ==
    [i \in DOMAIN loaded \cup ids |-> IF i \in DOMAIN loaded THEN loaded[i] ELSE appts[i]]

\* view_patient, lines 389-406: the patient is found and all its
\* appointments are selected
view_patient_all(w, patient_id) ==
    /\ req[w].pc = "start"
    /\ patient_id \in DOMAIN patients
    /\ req' = [req EXCEPT ![w] =
                [pc |-> "all", patient_id |-> patient_id,
                 loaded |-> Loaded(<<>>, view_patient(patient_id).appointments),
                 appointments |-> Load(<<>>, view_patient(patient_id).appointments),
                 upcoming_appointments |-> <<>>,
                 past_appointments |-> <<>>]]
    /\ UNCHANGED <<patients, doctors, appts, today>>

\* view_patient, lines 408-415
view_patient_upcoming(w) ==
    /\ req[w].pc = "all"
    /\ LET ids == view_patient(req[w].patient_id).upcoming_appointments
       IN  req' = [req EXCEPT ![w].pc = "upcoming",
                              ![w].loaded = Loaded(req[w].loaded, ids),
                              ![w].upcoming_appointments = Load(req[w].loaded, ids)]
    /\ UNCHANGED <<patients, doctors, appts, today>>

\* view_patient, lines 417-424
view_patient_past(w) ==
    /\ req[w].pc = "upcoming"
    /\ LET ids == view_patient(req[w].patient_id).past_appointments
       IN  req' = [req EXCEPT ![w].pc = "done",
                              ![w].loaded = Loaded(req[w].loaded, ids),
                              ![w].past_appointments = Load(req[w].loaded, ids)]
    /\ UNCHANGED <<patients, doctors, appts, today>>

\* view_patient, line 426: the page is rendered and the session is closed
view_patient_return(w) ==
    /\ req[w].pc = "done"
    /\ req' = [req EXCEPT ![w] = [pc |-> "start"]]
    /\ UNCHANGED <<patients, doctors, appts, today>>

\* edit_appointment on the other thread, accepted and committed
edit_appointment_beside(w, appointment_id, form) ==
    /\ req[w].pc = "editor"
    /\ "Ok" \in EditAppointmentResults(appointment_id, form)
    /\ appts' = UpdateRows(appts, appointment_id, form)
    /\ req' = [req EXCEPT ![w].written = @ \cup {<<appointment_id, AppointmentRow(form)>>}]
    /\ UNCHANGED <<patients, doctors, today>>

InitView ==
    /\ patients = [i \in ClinicPatients |-> ClinicPatient]
    /\ doctors = [i \in {1} |-> ClinicDoctor]
    /\ appts = [i \in {1} |-> ViewFirstRow]
    /\ today = LastDay
    /\ req = [w \in Workers |->
                IF w = 1 THEN [pc |-> "start"]
                ELSE [pc |-> "editor", written |-> {<<1, ViewFirstRow>>}]]

NextView ==
    \E w \in Workers :
        \/ \E patient_id \in ClinicPatients : view_patient_all(w, patient_id)
        \/ view_patient_upcoming(w)
        \/ view_patient_past(w)
        \/ view_patient_return(w)
        \/ \E form \in ViewForms : edit_appointment_beside(w, 1, form)

SpecView == InitView /\ [][NextView]_vars

-----------------------------------------------------------------------------
(* The limits of the duration: one patient and two doctors, and            *)
(* appointment requests whose durations are at and around the limits.      *)

DurationForms ==
    [date : {"2026-11-06", "2026-11-07"}, time : {"00:30", "23:00"},
     duration : {"-5", "0", "1", "240", "241"},
     diagnosis : DiagnosisTexts, patient_id : PatientIds, doctor_id : DoctorIds]

InitDurations ==
    /\ patients = [i \in PatientIds |-> ClinicPatient]
    /\ doctors = [i \in DoctorIds |-> ClinicDoctor]
    /\ appts = <<>>
    /\ today = 6
    /\ req = [w \in Workers |-> Idle]

NextDurations == AppointmentRequests(ApptIds, DurationForms)

SpecDurations == InitDurations /\ [][NextDurations]_vars

-----------------------------------------------------------------------------
(* Patients and doctors alone: records are added, edited and deleted with  *)
(* forms whose country code may be outside COUNTRY_CODES and whose contact *)
(* number may be typed with separators, too short or too long.             *)

UnknownCode == "+999"

PeopleForms ==
    [name : {"Ann", "Bea"},
     date_of_birth : {"2026-11-06", "2026-11-07", "2026-11-31"},
     country_code : {"+264", UnknownCode},
     contact_number : {LocalPhone, ShortPhone, Typed(MinPhoneDigits, "dashes"),
                       Typed(MaxPhoneDigits, "plus blanks"),
                       Typed(MaxPhoneDigits + 1, "plain")}]

\* the loaded patient after the assignments that precede the checks
EditPatientAssigned(patient, form) ==
    [patient EXCEPT !.name = form.name,
                    !.date_of_birth = form.date_of_birth,
                    !.country_code = form.country_code]

\* what edit_patient answers: "NotFound", the first failing check, "Error"
\* for a date of birth strptime refuses, "Ok" for a commit
EditPatientResult(patient_id, form) ==
    IF patient_id \notin DOMAIN patients THEN "NotFound"
    ELSE IF ~validate_phone_number(form.contact_number) THEN "InvalidPhone"
    ELSE IF ~DateParses(form.date_of_birth) THEN "Error"
    ELSE IF DateOrd(form.date_of_birth) > today THEN "FutureBirthDate"
    ELSE "Ok"

\* edit_patient whose session writes the assigned fields when a check fails
edit_patient_Flushes(patient_id, form) ==
    IF patient_id \notin DOMAIN patients
    THEN UNCHANGED vars
    ELSE LET res == EditPatientResult(patient_id, form)
             patient == EditPatientAssigned(patients[patient_id], form)
         IN  /\ patients' =
                    IF res = "Ok"
                    THEN Put(patients, patient_id,
                             [patient EXCEPT !.contact_number =
                                    format_phone_number(form.contact_number)])
                    ELSE Put(patients, patient_id, patient)
             /\ UNCHANGED <<doctors, appts, today, req>>

\* edit_patient: the assignments change the object the session holds; the
\* commit is reached only past the checks, and a return or an exception
\* inside the with block closes the session, which discards the object
edit_patient(patient_id, form) ==
    IF patient_id \notin DOMAIN patients
    THEN UNCHANGED vars
    ELSE LET res == EditPatientResult(patient_id, form)
             patient == EditPatientAssigned(patients[patient_id], form)
         IN  /\ patients' =
                    IF res = "Ok"
                    THEN Put(patients, patient_id,
                             [patient EXCEPT !.contact_number =
                                    format_phone_number(form.contact_number)])
                    ELSE patients
             /\ UNCHANGED <<doctors, appts, today, req>>

EditDoctorAssigned(doctor, form) ==
    [doctor EXCEPT !.name = form.name, !.country_code = form.country_code]

EditDoctorResult(doctor_id, form) ==
    IF doctor_id \notin DOMAIN doctors THEN "NotFound"
    ELSE IF ~validate_phone_number(form.contact_number) THEN "InvalidPhone"
    ELSE "Ok"

edit_doctor(doctor_id, form) ==
    IF doctor_id \notin DOMAIN doctors
    THEN UNCHANGED vars
    ELSE LET res == EditDoctorResult(doctor_id, form)
             doctor == EditDoctorAssigned(doctors[doctor_id], form)
         IN  /\ doctors' =
                    IF res = "Ok"
                    THEN Put(doctors, doctor_id,
                             [doctor EXCEPT !.contact_number =
                                    format_phone_number(form.contact_number)])
                    ELSE doctors
             /\ UNCHANGED <<patients, appts, today, req>>

InitPeople ==
    /\ patients = <<>>
    /\ doctors = <<>>
    /\ appts = <<>>
    /\ today = 6
    /\ req = [w \in Workers |-> Idle]

NextPeople ==
    \/ \E form \in PeopleForms : add_patient(form)
    \/ \E id \in PatientIds, form \in PeopleForms : edit_patient(id, form)
    \/ \E id \in PatientIds : delete_patient(id)
    \/ \E form \in PeopleForms : add_doctor(form)
    \/ \E id \in DoctorIds, form \in PeopleForms : edit_doctor(id, form)
    \/ \E id \in DoctorIds : delete_doctor(id)
    \/ NextDay

SpecPeople == InitPeople /\ [][NextPeople]_vars

-----------------------------------------------------------------------------
(* The claims. *)

\* the half-open interval of a stored appointment, [date+time, date+time+duration)
Interval(a) == [start |-> ExistingStart(a), end |-> ExistingEnd(a)]

IntervalsOverlap(a, b) ==
    Interval(a).start < Interval(b).end /\ Interval(b).start < Interval(a).end

\* C1: for every doctor, no two stored appointments have overlapping
\* half-open intervals, whatever their dates, times and durations.
C1_DoctorIntervalsDisjoint ==
    \A i, j \in DOMAIN appts :
        (i # j /\ appts[i].doctor_id = appts[j].doctor_id)
            => ~IntervalsOverlap(appts[i], appts[j])

\* C1 narrowed to one calendar day: no two stored appointments of a doctor
\* that fall on the same day overlap (violated too, by two spellings of the
\* day).
C1_SameDayDoctorIntervalsDisjoint ==
    \A i, j \in DOMAIN appts :
        (/\ i # j
         /\ appts[i].doctor_id = appts[j].doctor_id
         /\ DateOrd(appts[i].date) = DateOrd(appts[j].date))
            => ~IntervalsOverlap(appts[i], appts[j])

\* C3: two requests for overlapping intervals of one doctor never both pass
\* the availability check and both persist, however their reads and writes
\* interleave: no two stored appointments of a doctor with the same date text
\* (the rows the availability query compares) overlap.
C3_NoDoubleBooking ==
    \A i, j \in DOMAIN appts :
        (/\ i # j
         /\ appts[i].doctor_id = appts[j].doctor_id
         /\ appts[i].date = appts[j].date)
            => ~IntervalsOverlap(appts[i], appts[j])

\* C2: for every patient, no two stored appointments have overlapping
\* half-open intervals.
C2_PatientIntervalsDisjoint ==
    \A i, j \in DOMAIN appts :
        (i # j /\ appts[i].patient_id = appts[j].patient_id)
            => ~IntervalsOverlap(appts[i], appts[j])

\* C2 narrowed to appointments stored under the same date text, which the
\* patient check of edit_appointment does compare (violated too: create
\* makes no patient check).
C2_SameTextPatientIntervalsDisjoint ==
    \A i, j \in DOMAIN appts :
        (/\ i # j
         /\ appts[i].patient_id = appts[j].patient_id
         /\ appts[i].date = appts[j].date)
            => ~IntervalsOverlap(appts[i], appts[j])

\* C4: every stored appointment references a patient and a doctor that
\* exist.
C4_ReferencesExist ==
    \A i \in DOMAIN appts :
        /\ appts[i].patient_id \in DOMAIN patients
        /\ appts[i].doctor_id \in DOMAIN doctors

\* C11: every stored appointment's time matches the two-digit HH:MM pattern,
\* and a create or an update of a stored appointment whose time does not
\* match it, the earlier checks passed, is answered InvalidTimeFormat.
C11_TimesMatchPattern ==
    /\ \A i \in DOMAIN appts : TimeMatchesPattern(appts[i].time)
    /\ \A form \in AllForms :
            (/\ form.patient_id \in DOMAIN patients
             /\ form.doctor_id \in DOMAIN doctors
             /\ DateParses(form.date) /\ DateOrd(form.date) >= today
             /\ IntParses(form.duration)
             /\ IntOf(form.duration) >= 1 /\ IntOf(form.duration) <= MaxDuration
             /\ ~TimeMatchesPattern(form.time))
                => /\ AddAppointmentResult(form) = "InvalidTimeFormat"
                   /\ \A id \in DOMAIN appts :
                        EditAppointmentResults(id, form) = {"InvalidTimeFormat"}

\* C11, create mode only (holds).
C11_CreateChecksPattern ==
    \A form \in AllForms :
        (/\ form.patient_id \in DOMAIN patients
         /\ form.doctor_id \in DOMAIN doctors
         /\ DateParses(form.date) /\ DateOrd(form.date) >= today
         /\ IntParses(form.duration)
         /\ IntOf(form.duration) >= 1 /\ IntOf(form.duration) <= MaxDuration
         /\ ~TimeMatchesPattern(form.time))
            => AddAppointmentResult(form) = "InvalidTimeFormat"

\* C11, the stored times alone.
C11_StoredTimesMatchPattern ==
    \A i \in DOMAIN appts : TimeMatchesPattern(appts[i].time)

\* the answers of spec 4.4: Ok and the seven typed reasons
TypedResults ==
    {"Ok", "PatientNotFound", "DoctorNotFound", "PastDate", "InvalidDuration",
     "InvalidTimeFormat", "DoctorUnavailable", "PatientUnavailable"}

\* the form has a date that does not parse, a duration that is no integer, or
\* a time that does not parse
BadFieldInput(form) ==
    ~DateParses(form.date) \/ ~IntParses(form.duration) \/ ~TimeParses(form.time)

\* C12: a create, or an update of a stored appointment, with a date that does
\* not parse, a non-integer duration or a time that does not parse is
\* answered with a typed rejection, never with a raw exception.
C12_BadInputTypedRejection ==
    \A form \in AllForms :
        BadFieldInput(form) =>
            /\ AddAppointmentResult(form) \in TypedResults \ {"Ok"}
            /\ \A id \in DOMAIN appts :
                    EditAppointmentResults(id, form) \subseteq TypedResults \ {"Ok"}

\* C12 weakened to what the code does (holds): bad field input is never
\* accepted and never written, but the answer may be a raw exception.
C12_BadInputNeverAccepted ==
    \A form \in AllForms :
        BadFieldInput(form) =>
            /\ AddAppointmentResult(form) # "Ok"
            /\ \A id \in DOMAIN appts : "Ok" \notin EditAppointmentResults(id, form)

\* the requests check_availability is given: ids supplied or omitted, a
\* duration supplied or omitted
AvailabilityIds == {None} \cup 1..2

AvailabilityDurations == {d \in DurationTexts : IntParses(d)} \cup {NoDuration}

\* C13: check_availability with a date or a time that does not parse answers
\* doctor_available = FALSE and patient_available = FALSE, whichever of the
\* two ids are supplied or omitted.
C13_MalformedReportsUnavailable ==
    \A doctor_id, patient_id \in AvailabilityIds :
        \A date_str \in DateTexts, time_str \in TimeTexts :
            \A duration \in AvailabilityDurations :
                ~DateTimeParses(date_str, time_str) =>
                    CheckAvailabilityResults(doctor_id, patient_id, date_str,
                                             time_str, duration)
                        = {[doctor_available |-> FALSE, patient_available |-> FALSE]}

\* C13 narrowed to requests that supply both ids (holds).
C13_MalformedSuppliedUnavailable ==
    \A doctor_id, patient_id \in AvailabilityIds \ {None} :
        \A date_str \in DateTexts, time_str \in TimeTexts :
            \A duration \in AvailabilityDurations :
                ~DateTimeParses(date_str, time_str) =>
                    CheckAvailabilityResults(doctor_id, patient_id, date_str,
                                             time_str, duration)
                        = {[doctor_available |-> FALSE, patient_available |-> FALSE]}

\* C14: with one request at a time, the id a create allocates differs from
\* every id stored for its class, also once the numbers pass LastShortId.
C14_AllocatedIdFresh ==
    /\ NextAppointmentId \notin DOMAIN appts
    /\ NextPatientId \notin DOMAIN patients
    /\ NextDoctorId \notin DOMAIN doctors

\* the text is one or more decimal digits
PurelyNumeric(cs) == cs # <<>> /\ \A i \in 1..Len(cs) : IsDigit(cs[i])

\* the call of worker w has returned
Returned(w) == req[w].pc = "returned"

\* C15: generate_id returns the prefix followed by the number after the
\* prefix of the last id plus one, in at least IdWidth digits with zeros on
\* the left, and the prefix followed by 001 when there is no last id; P007
\* gives P008.
C15_NextId ==
    \A w \in Workers :
        Returned(w) =>
            LET prefix == req[w].prefix
                last_id == req[w].last_id
                id == req[w].id
            IN  /\ last_id = <<>> => id = <<prefix, "0", "0", "1">>
                /\ (last_id # <<>> /\ PurelyNumeric(Tail(last_id))) =>
                        /\ Head(id) = prefix
                        /\ PurelyNumeric(Tail(id))
                        /\ DigitsValue(Tail(id)) = DigitsValue(Tail(last_id)) + 1
                        /\ DigitsValue(Tail(id)) = generate_id(DigitsValue(Tail(last_id)))
                        /\ Len(Tail(id)) >= IdWidth
                        /\ Len(Tail(id)) > IdWidth => Tail(id)[1] # "0"
                /\ (prefix = "P" /\ last_id = <<"P", "0", "0", "7">>)
                        => id = <<"P", "0", "0", "8">>

\* C15 witness: the call generate_id('P', 'P007') has returned P008.
C15_Witness ==
    \E w \in Workers :
        /\ Returned(w)
        /\ req[w].prefix = "P"
        /\ req[w].last_id = <<"P", "0", "0", "7">>
        /\ req[w].id = <<"P", "0", "0", "8">>

\* C15, the longer ids: A999 gives A1000 (reached).
C15_CarryReached ==
    \E w \in Workers :
        /\ Returned(w)
        /\ req[w].last_id = <<"A", "9", "9", "9">>
        /\ req[w].id = <<"A", "1", "0", "0", "0">>

\* C16: generate_id given a last id whose text after the prefix is not purely
\* numeric raises and returns no id.
C16_MalformedFails ==
    \A w \in Workers :
        (Returned(w) /\ req[w].last_id # <<>> /\ ~PurelyNumeric(Tail(req[w].last_id)))
            => req[w].id = ValueError

\* C16 narrowed to the texts int() refuses (holds): a letter, an empty
\* suffix, a sign or an underscore out of place.
C16_RefusedTextFails ==
    \A w \in Workers :
        (Returned(w) /\ req[w].last_id # <<>> /\ ~IntTextParses(Tail(req[w].last_id)))
            => req[w].id = ValueError

\* C16, a text with a letter always raises (holds).
C16_LetterFails ==
    \A w \in Workers :
        (/\ Returned(w) /\ req[w].last_id # <<>>
         /\ \E i \in 2..Len(req[w].last_id) : req[w].last_id[i] = "x")
            => req[w].id = ValueError

\* the appointment ids of any of the specifications
AllApptIds == ApptIds \cup LateApptIds

\* some listing of some patient or doctor contains the appointment id
Listed(id) ==
    \E r \in 1..2 :
        \/ id \in view_patient(r).appointments
        \/ id \in view_patient(r).upcoming_appointments
        \/ id \in view_patient(r).past_appointments
        \/ id \in view_doctor(r).appointments
        \/ id \in view_doctor(r).upcoming_appointments
        \/ id \in view_doctor(r).past_appointments

\* C17: delete of an absent appointment id answers NotFound and changes
\* nothing; delete of a stored id answers Ok and leaves it absent; and an
\* absent id, deleted or never created, is in no listing.
C17_DeleteIdempotent ==
    /\ \A id \in AllApptIds \ DOMAIN appts :
            /\ DeleteAppointmentResult(id) = "NotFound"
            /\ ~ENABLED (delete_appointment(id) /\ vars' # vars)
            /\ ~Listed(id)
    /\ \A id \in DOMAIN appts :
            /\ DeleteAppointmentResult(id) = "Ok"
            /\ ~ENABLED (delete_appointment(id) /\ id \in DOMAIN appts')

\* C17 witness: appointment 1 has been deleted while a later one is stored
\* and listed; a second delete of 1 is answered NotFound.
C17_Witness ==
    /\ 1 \notin DOMAIN appts
    /\ 2 \in DOMAIN appts
    /\ Listed(2)
    /\ DeleteAppointmentResult(1) = "NotFound"

\* C18: an update of an appointment id that is not stored is answered
\* NotFound whatever the form holds, and changes nothing.
C18_UpdateAbsentNotFound ==
    \A id \in AllApptIds \ DOMAIN appts : \A form \in AllForms :
        /\ EditAppointmentResults(id, form) = {"NotFound"}
        /\ ~ENABLED (edit_appointment(id, form) /\ vars' # vars)

\* C18 witness: appointment 1 has been deleted, another is stored, and an
\* update of 1 with a duration that is no integer is answered NotFound.
C18_Witness ==
    /\ 1 \notin DOMAIN appts
    /\ 2 \in DOMAIN appts
    /\ \E form \in AllForms :
            /\ form.duration = "abc"
            /\ form.date = "2026-11-31"
            /\ EditAppointmentResults(1, form) = {"NotFound"}

\* the update of `id` with `form` has replaced every field of the row and
\* nothing else
Replaced(id, form) ==
    /\ DOMAIN appts' = DOMAIN appts
    /\ appts'[id].date = form.date
    /\ appts'[id].time = form.time
    /\ appts'[id].duration = IntOf(form.duration)
    /\ appts'[id].diagnosis = form.diagnosis
    /\ appts'[id].patient_id = form.patient_id
    /\ appts'[id].doctor_id = form.doctor_id
    /\ \A j \in DOMAIN appts \ {id} : appts'[j] = appts[j]
    /\ patients' = patients
    /\ doctors' = doctors

\* C19: a successful update of appointment X leaves X under the same id with
\* date, time, duration, diagnosis, patient and doctor equal to the input,
\* and every other appointment, the set of appointment ids, the patients and
\* the doctors unchanged.
C19_UpdateReplacesFields ==
    \A id \in DOMAIN appts : \A form \in AllForms :
        "Ok" \in EditAppointmentResults(id, form) =>
            ~ENABLED (edit_appointment(id, form) /\ ~Replaced(id, form))

\* C19 witness: beside another appointment, an update that changes the date,
\* the time, the duration and the doctor of an appointment can be written.
C19_Witness ==
    \E id \in DOMAIN appts : \E form \in AllForms :
        /\ Cardinality(DOMAIN appts) = 2
        /\ "Ok" \in EditAppointmentResults(id, form)
        /\ form.date # appts[id].date
        /\ form.time # appts[id].time
        /\ IntOf(form.duration) # appts[id].duration
        /\ form.doctor_id # appts[id].doctor_id
        /\ ENABLED (edit_appointment(id, form) /\ appts'[id] = AppointmentRow(form))

\* the delete of patient p has removed p and exactly p's appointments
PatientCascaded(p) ==
    /\ patients' = [q \in DOMAIN patients \ {p} |-> patients[q]]
    /\ appts' = [i \in {j \in DOMAIN appts : appts[j].patient_id # p} |-> appts[i]]
    /\ doctors' = doctors

\* the delete of doctor d has removed d and exactly d's appointments
DoctorCascaded(d) ==
    /\ doctors' = [e \in DOMAIN doctors \ {d} |-> doctors[e]]
    /\ appts' = [i \in {j \in DOMAIN appts : appts[j].doctor_id # d} |-> appts[i]]
    /\ patients' = patients

\* C20: deleting a stored patient or doctor removes, in one step, the
\* resource and exactly the appointments that reference it, every other
\* appointment unchanged; deleting an absent one changes nothing.
C20_DeleteCascades ==
    /\ \A p \in 1..2 :
            IF p \in DOMAIN patients
            THEN ~ENABLED (delete_patient(p) /\ ~PatientCascaded(p))
            ELSE ~ENABLED (delete_patient(p) /\ vars' # vars)
    /\ \A d \in 1..2 :
            IF d \in DOMAIN doctors
            THEN ~ENABLED (delete_doctor(d) /\ ~DoctorCascaded(d))
            ELSE ~ENABLED (delete_doctor(d) /\ vars' # vars)

\* C20 witness: two doctors have an appointment each, and the delete of one
\* of them leaves exactly the other's appointment.
C20_Witness ==
    \E d \in DOMAIN doctors : \E i, j \in DOMAIN appts :
        /\ appts[i].doctor_id = d
        /\ appts[j].doctor_id # d
        /\ appts[j].doctor_id \in DOMAIN doctors
        /\ ENABLED (delete_doctor(d) /\ DOMAIN appts' = {j})

\* the candidate interval of a form whose date, time and duration parse
CandidateStart(form) == DateTimeOrd(form.date, form.time)

CandidateEnd(form) == CandidateStart(form) + IntOf(form.duration)

\* the form passes every check that spec 4.4 puts before the availability
\* checks: patient and doctor exist, the date is valid and not past, the
\* duration is in 1..MaxDuration, the time is HH:MM
PassesFieldChecks(form) ==
    /\ WellFormed(form)
    /\ form.patient_id \in DOMAIN patients
    /\ form.doctor_id \in DOMAIN doctors
    /\ DateOrd(form.date) >= today

\* a stored appointment of the form's doctor, other than `exclude`, on the
\* form's calendar day, overlaps the candidate interval
DoctorBusy(form, exclude) ==
    \E i \in DOMAIN appts \ {exclude} :
        /\ appts[i].doctor_id = form.doctor_id
        /\ DateOrd(appts[i].date) = DateOrd(form.date)
        /\ CandidateStart(form) < ExistingEnd(appts[i])
        /\ CandidateEnd(form) > ExistingStart(appts[i])

\* C5: a create or update that passes the field checks and whose candidate
\* interval overlaps a stored same-day appointment of the chosen doctor,
\* other than the appointment being edited, is answered DoctorUnavailable.
C5_OverlapRejected ==
    \A form \in AllForms :
        PassesFieldChecks(form) =>
            /\ DoctorBusy(form, None) => AddAppointmentResult(form) = "DoctorUnavailable"
            /\ \A id \in DOMAIN appts :
                    DoctorBusy(form, id) =>
                        EditAppointmentResults(id, form) = {"DoctorUnavailable"}

\* C5 narrowed to stored appointments whose date text equals the form's
\* (holds: this is the comparison is_doctor_available makes).
C5_SameTextOverlapRejected ==
    \A form \in AllForms :
        PassesFieldChecks(form) =>
            \A i \in DOMAIN appts :
                (/\ appts[i].doctor_id = form.doctor_id
                 /\ appts[i].date = form.date
                 /\ CandidateStart(form) < ExistingEnd(appts[i])
                 /\ CandidateEnd(form) > ExistingStart(appts[i]))
                    => /\ AddAppointmentResult(form) = "DoctorUnavailable"
                       /\ \A id \in DOMAIN appts \ {i} :
                            EditAppointmentResults(id, form) = {"DoctorUnavailable"}

\* every stored appointment of the form's doctor on the form's calendar day
\* ends at or before the candidate's start or starts at or after its end
DoctorFree(form) ==
    \A i \in DOMAIN appts :
        (/\ appts[i].doctor_id = form.doctor_id
         /\ DateOrd(appts[i].date) = DateOrd(form.date))
            => \/ ExistingEnd(appts[i]) <= CandidateStart(form)
               \/ ExistingStart(appts[i]) >= CandidateEnd(form)

\* C6: a create with valid fields, for a doctor whose appointments of that
\* day all end at or before the candidate's start or start at or after its
\* end (touching endpoints included), succeeds.
C6_BackToBackAccepted ==
    \A form \in AllForms :
        (PassesFieldChecks(form) /\ DoctorFree(form))
            => AddAppointmentResult(form) = "Ok"

\* the form given to an update of `id` overlaps the appointment's own stored
\* interval, and no OTHER stored appointment of the chosen doctor or of the
\* chosen patient overlaps it
OnlySelfOverlaps(id, form) ==
    /\ CandidateStart(form) < ExistingEnd(appts[id])
    /\ CandidateEnd(form) > ExistingStart(appts[id])
    /\ \A j \in DOMAIN appts \ {id} :
            (appts[j].doctor_id = form.doctor_id \/ appts[j].patient_id = form.patient_id)
                => \/ ExistingEnd(appts[j]) <= CandidateStart(form)
                   \/ ExistingStart(appts[j]) >= CandidateEnd(form)

\* C7: an update of a stored appointment with valid fields, whose new interval
\* overlaps the appointment's own previous interval and no other appointment
\* of the chosen doctor or patient, succeeds: the appointment never conflicts
\* with itself, in the doctor check and in the patient check, also when the
\* update changes the doctor or the patient.
C7_NoSelfConflict ==
    \A id \in DOMAIN appts : \A form \in AllForms :
        (PassesFieldChecks(form) /\ OnlySelfOverlaps(id, form))
            => EditAppointmentResults(id, form) = {"Ok"}

\* C7 witness: beside another stored appointment, an appointment is moved to
\* an interval that overlaps its own, with another doctor and another patient,
\* and the update is written.
C7_Witness ==
    \E id \in DOMAIN appts : \E form \in AllForms :
        /\ Cardinality(DOMAIN appts) = 2
        /\ PassesFieldChecks(form)
        /\ OnlySelfOverlaps(id, form)
        /\ form.doctor_id # appts[id].doctor_id
        /\ form.patient_id # appts[id].patient_id
        /\ CandidateStart(form) # ExistingStart(appts[id])
        /\ ENABLED (edit_appointment(id, form) /\ appts'[id] = AppointmentRow(form))

\* C8: every step that inserts or rewrites an appointment writes a date that
\* is not earlier than the current date at the time of the write.
C8_WritesNotPast ==
    [][\A i \in DOMAIN appts' :
            (i \notin DOMAIN appts \/ appts'[i] # appts[i])
                => DateOrd(appts'[i].date) >= today]_vars

\* C8 witness: the day has advanced, a stored appointment has become past, a
\* create and an update dated today can be written, and the same requests
\* dated yesterday are answered PastDate.
C8_Witness ==
    \E id \in DOMAIN appts : \E form, old \in AllForms :
        /\ DateOrd(appts[id].date) < today
        /\ DateOrd(form.date) = today
        /\ old = [form EXCEPT !.date = appts[id].date]
        /\ ENABLED (add_appointment(form) /\ appts' # appts)
        /\ ENABLED (edit_appointment(id, form) /\ appts' # appts)
        /\ AddAppointmentResult(old) = "PastDate"
        /\ EditAppointmentResults(id, old) = {"PastDate"}

\* the form's date parses and is earlier than the current date
PastDated(form) == DateParses(form.date) /\ DateOrd(form.date) < today

FixedOrderReason(form, exclude) ==
    IF form.patient_id \notin DOMAIN patients THEN "PatientNotFound"
    ELSE IF form.doctor_id \notin DOMAIN doctors THEN "DoctorNotFound"
    ELSE IF DateOrd(form.date) < today THEN "PastDate"
    ELSE IF IntOf(form.duration) <= 0 \/ IntOf(form.duration) > MaxDuration THEN "InvalidDuration"
    ELSE IF ~TimeMatchesPattern(form.time) THEN "InvalidTimeFormat"
    ELSE IF ~is_doctor_available(appts, form.doctor_id, form.date, form.time,
                                 IntOf(form.duration), exclude) THEN "DoctorUnavailable"
    ELSE IF ~is_patient_available(appts, {i \in DOMAIN appts :
                                            /\ appts[i].patient_id = form.patient_id
                                            /\ appts[i].date = form.date},
                                  form.date, form.time, IntOf(form.duration),
                                  exclude) THEN "PatientUnavailable"
    ELSE "Ok"

\* C10: in create mode and in update mode the checks run in the fixed order
\* and the answer is the reason of the earliest failing check.
C10_FixedOrder ==
    \A form \in AllForms :
        (DateParses(form.date) /\ TimeParses(form.time) /\ IntParses(form.duration)) =>
            /\ AddAppointmentResult(form) = FixedOrderReason(form, None)
            /\ \A id \in DOMAIN appts :
                    EditAppointmentResults(id, form) = {FixedOrderReason(form, id)}

\* C10, create mode only.
C10_FixedOrderCreate ==
    \A form \in AllForms :
        (DateParses(form.date) /\ TimeParses(form.time) /\ IntParses(form.duration)) =>
            AddAppointmentResult(form) = FixedOrderReason(form, None)

\* C10, create mode, up to and including the doctor check (holds).
C10_FixedOrderCreateToDoctor ==
    \A form \in AllForms :
        (/\ DateParses(form.date) /\ TimeParses(form.time) /\ IntParses(form.duration)
         /\ FixedOrderReason(form, None) # "PatientUnavailable")
            => AddAppointmentResult(form) = FixedOrderReason(form, None)

\* the three listings of every patient and every doctor
Listings ==
    {view_patient(r) : r \in 1..2} \cup {view_doctor(r) : r \in 1..2}

\* the list shows the appointments most recent first by their date and time
MostRecentFirst(seq) ==
    \A k, l \in 1..Len(seq) :
        k < l => DateTimeOrd(appts[seq[k]].date, appts[seq[k]].time)
                    >= DateTimeOrd(appts[seq[l]].date, appts[seq[l]].time)

\* C21: in every listing, upcoming and past partition all, upcoming holds the
\* appointments dated today or later and past those dated before today, and
\* each of the three lists is ordered most recent first by date and time.
C21_ListingsPartitionedAndOrdered ==
    \A v \in Listings :
        /\ v.upcoming_appointments \cap v.past_appointments = {}
        /\ v.upcoming_appointments \cup v.past_appointments = v.appointments
        /\ v.upcoming_appointments
                = {i \in v.appointments : DateOrd(appts[i].date) >= today}
        /\ v.past_appointments
                = {i \in v.appointments : DateOrd(appts[i].date) < today}
        /\ \A ids \in {v.appointments, v.upcoming_appointments, v.past_appointments} :
                \A seq \in ListingOrders(ids) : MostRecentFirst(seq)

\* C21, the partition alone (holds).
C21_Partition ==
    \A v \in Listings :
        /\ v.upcoming_appointments \cap v.past_appointments = {}
        /\ v.upcoming_appointments \cup v.past_appointments = v.appointments

\* C21 narrowed to listings whose appointments all have a date of two-digit
\* month and day and a time of two-digit hour (holds).
C21_CanonicalTextsOrdered ==
    \A v \in Listings :
        (\A i \in v.appointments :
            appts[i].date \in {"2026-11-06", "2026-11-07"} /\ appts[i].time # "0:30")
        => /\ v.upcoming_appointments
                = {i \in v.appointments : DateOrd(appts[i].date) >= today}
           /\ v.past_appointments
                = {i \in v.appointments : DateOrd(appts[i].date) < today}
           /\ \A ids \in {v.appointments, v.upcoming_appointments, v.past_appointments} :
                \A seq \in ListingOrders(ids) : MostRecentFirst(seq)

\* C21, the order alone.
C21_Ordered ==
    \A v \in Listings : \A seq \in ListingOrders(v.appointments) : MostRecentFirst(seq)

\* the number of digit characters of a text
DigitCount(cs) == Cardinality({i \in 1..Len(cs) : cs[i] \in Digits})

\* C22: validate_phone_number is true exactly when the text is not empty and
\* has between MinPhoneDigits and MaxPhoneDigits digit characters, whatever
\* separators, blanks or leading '+' it has.
C22_ValidatePhone ==
    \A w \in Workers :
        Returned(w) =>
            (req[w].valid <=>
                /\ req[w].phone_number # <<>>
                /\ DigitCount(req[w].phone_number) >= MinPhoneDigits
                /\ DigitCount(req[w].phone_number) <= MaxPhoneDigits)

\* C22 witness: a number of MaxPhoneDigits digits typed with a leading '+'
\* and blanks, longer than MaxPhoneDigits characters, has been found valid.
C22_Witness ==
    \E w \in Workers :
        /\ Returned(w)
        /\ req[w].phone_number = Typed(MaxPhoneDigits, "plus blanks")
        /\ req[w].valid

\* C22, the example of the spec: '123' has been found invalid (reached).
C22_TooShortReached ==
    \E w \in Workers :
        /\ Returned(w)
        /\ req[w].phone_number = <<"1", "2", "3">>
        /\ ~req[w].valid

\* worker w is listing and has run its first query
Listing(w) == req[w].pc \in {"all", "upcoming", "done"}

\* the rows some update, or the first insert, has committed
Committed == UNION {req[w].written : w \in {v \in Workers : req[v].pc = "editor"}}

\* C23: a listing beside updates of appointment X shows X, in each of its
\* lists, with the field values of one committed row (those before an update
\* or those after it, never a mixture), and its all, upcoming and past lists
\* show X with the same field values.
C23_NoTornListing ==
    \A w \in Workers :
        Listing(w) =>
            LET all == req[w].appointments
                upcoming == req[w].upcoming_appointments
                past == req[w].past_appointments
            IN  /\ \A i \in DOMAIN all : <<i, all[i]>> \in Committed
                /\ \A i \in DOMAIN upcoming : <<i, upcoming[i]>> \in Committed
                /\ \A i \in DOMAIN past : <<i, past[i]>> \in Committed
                /\ \A i \in DOMAIN all \cap DOMAIN upcoming : all[i] = upcoming[i]
                /\ \A i \in DOMAIN all \cap DOMAIN past : all[i] = past[i]
                /\ \A i \in DOMAIN upcoming \cap DOMAIN past : upcoming[i] = past[i]

\* C23 witness: a listing has finished in which appointment 1 was updated
\* between the first and the second query: it is in the all list and in the
\* upcoming list, both with the date it had before the update.
C23_Witness ==
    \E w \in Workers :
        /\ req[w].pc = "done"
        /\ 1 \in DOMAIN req[w].appointments
        /\ 1 \in DOMAIN req[w].upcoming_appointments
        /\ req[w].appointments[1].date = "2026-11-06"
        /\ req[w].upcoming_appointments[1].date = "2026-11-06"
        /\ appts[1].date = "2026-11-07"

\* the typed rejections of spec 4.4
Rejections == TypedResults \ {"Ok"}

\* C24: a create or an update that is answered with a rejection leaves the
\* appointments, the patients and the doctors as they were, and the next id
\* to allocate with them.
C24_RejectionChangesNothing ==
    \A form \in AllForms :
        /\ AddAppointmentResult(form) \in Rejections
                => ~ENABLED (add_appointment(form) /\ vars' # vars)
        /\ \A id \in DOMAIN appts :
                EditAppointmentResults(id, form) \subseteq Rejections
                    => ~ENABLED (edit_appointment(id, form) /\ vars' # vars)

\* C24 witness: with two appointments stored, a create is answered
\* DoctorUnavailable and an update PatientUnavailable.
C24_Witness ==
    /\ Cardinality(DOMAIN appts) = 2
    /\ \E form \in AllForms : AddAppointmentResult(form) = "DoctorUnavailable"
    /\ \E id \in DOMAIN appts : \E form \in AllForms :
            EditAppointmentResults(id, form) = {"PatientUnavailable"}

\* the candidates the availability functions are asked about
CandidateDates == {d \in DateTexts : DateParses(d)}

CandidateTimes == {t \in TimeTexts : TimeParses(t)}

CandidateDurations == {IntOf(d) : d \in {e \in DurationTexts : IntParses(e)}}

\* some stored appointment among `ids`, other than `exclude`, on the calendar
\* day of `appt_date`, overlaps the candidate
Clash(ids, appt_date, appt_time, duration, exclude) ==
    \E i \in ids \ {exclude} :
        /\ DateOrd(appts[i].date) = DateOrd(appt_date)
        /\ DateTimeOrd(appt_date, appt_time) < ExistingEnd(appts[i])
        /\ DateTimeOrd(appt_date, appt_time) + duration > ExistingStart(appts[i])

\* the same, for the appointments whose date text is the candidate's
ClashSameText(ids, appt_date, appt_time, duration, exclude) ==
    \E i \in ids \ {exclude} :
        /\ appts[i].date = appt_date
        /\ DateTimeOrd(appt_date, appt_time) < ExistingEnd(appts[i])
        /\ DateTimeOrd(appt_date, appt_time) + duration > ExistingStart(appts[i])

\* C25: is_doctor_available and is_patient_available return false exactly
\* when a stored appointment of the resource on the candidate's calendar
\* date, other than the excluded one, overlaps the candidate, whatever is
\* stored for other dates and other resources.
C25_AvailableIffNoClash ==
    \A r \in 1..2 : \A appt_date \in CandidateDates : \A appt_time \in CandidateTimes :
        \A duration \in CandidateDurations : \A exclude \in {None} \cup DOMAIN appts :
            /\ is_doctor_available(appts, r, appt_date, appt_time, duration, exclude)
                    <=> ~Clash({i \in DOMAIN appts : appts[i].doctor_id = r},
                               appt_date, appt_time, duration, exclude)
            /\ \A fetched \in PatientFetches(appts, r, appt_date) :
                    is_patient_available(appts, fetched, appt_date, appt_time,
                                         duration, exclude)
                        <=> ~Clash({i \in DOMAIN appts : appts[i].patient_id = r},
                                   appt_date, appt_time, duration, exclude)

\* C25 narrowed to the stored appointments whose date text equals the
\* candidate's (holds).
C25_AvailableIffNoSameTextClash ==
    \A r \in 1..2 : \A appt_date \in CandidateDates : \A appt_time \in CandidateTimes :
        \A duration \in CandidateDurations : \A exclude \in {None} \cup DOMAIN appts :
            /\ is_doctor_available(appts, r, appt_date, appt_time, duration, exclude)
                    <=> ~ClashSameText({i \in DOMAIN appts : appts[i].doctor_id = r},
                                       appt_date, appt_time, duration, exclude)
            /\ \A fetched \in PatientFetches(appts, r, appt_date) :
                    is_patient_available(appts, fetched, appt_date, appt_time,
                                         duration, exclude)
                        <=> ~ClashSameText({i \in DOMAIN appts : appts[i].patient_id = r},
                                           appt_date, appt_time, duration, exclude)

\* C26: every stored appointment has a duration in 1..MaxDuration; a create,
\* or an update of a stored appointment, that passes the checks before the
\* duration check is answered InvalidDuration for a duration of 0, below 0 or
\* above MaxDuration, and is not for the limits 1 and MaxDuration.
C26_DurationInRange ==
    /\ \A i \in DOMAIN appts :
            appts[i].duration >= 1 /\ appts[i].duration <= MaxDuration
    /\ \A form \in DurationForms :
            LET duration == IntOf(form.duration)
                refused == duration <= 0 \/ duration > MaxDuration
            IN  DateOrd(form.date) >= today =>
                    /\ (/\ form.patient_id \in DOMAIN patients
                        /\ form.doctor_id \in DOMAIN doctors)
                            => (AddAppointmentResult(form) = "InvalidDuration" <=> refused)
                    /\ \A id \in DOMAIN appts :
                            (EditAppointmentResults(id, form) = {"InvalidDuration"}
                                <=> refused)

\* C26 witness: an appointment of 1 minute and one of MaxDuration minutes are
\* stored, and a create of MaxDuration + 1 minutes and one of 0 minutes are
\* answered InvalidDuration.
C26_Witness ==
    /\ \E i \in DOMAIN appts : appts[i].duration = 1
    /\ \E i \in DOMAIN appts : appts[i].duration = MaxDuration
    /\ \E form \in DurationForms :
            form.duration = "241" /\ AddAppointmentResult(form) = "InvalidDuration"
    /\ \E form \in DurationForms :
            form.duration = "0" /\ AddAppointmentResult(form) = "InvalidDuration"

\* C29: an id that has been allocated is never allocated again: after a step
\* that deletes records, the id the next create of the class allocates is
\* none of the deleted ids.
C29_NoIdReuse ==
    [][/\ NextAppointmentId' \notin DOMAIN appts \ DOMAIN appts'
       /\ NextPatientId' \notin DOMAIN patients \ DOMAIN patients'
       /\ NextDoctorId' \notin DOMAIN doctors \ DOMAIN doctors']_vars

\* C29 narrowed to the deletes that leave a record with a higher id (holds
\* while every id has IdWidth digits).
C29_NoReuseBelowLast ==
    [][/\ \A i \in DOMAIN appts \ DOMAIN appts' :
            (\E j \in DOMAIN appts' : j > i) => NextAppointmentId' # i
       /\ \A i \in DOMAIN doctors \ DOMAIN doctors' :
            (\E j \in DOMAIN doctors' : j > i) => NextDoctorId' # i]_vars

\* the contact numbers stored with patients and doctors
StoredNumbers ==
    {patients[i].contact_number : i \in DOMAIN patients}
        \cup {doctors[i].contact_number : i \in DOMAIN doctors}

\* C27: every stored contact number is the digit-only text format_phone_number
\* produces, of MinPhoneDigits to MaxPhoneDigits digits; format_phone_number
\* is idempotent and validate_phone_number gives a number and its formatted
\* text the same answer.
C27_StoredNumbersFormatted ==
    /\ \A n \in StoredNumbers :
            /\ \A k \in 1..Len(n) : n[k] \in Digits
            /\ format_phone_number(n) = n
            /\ Len(n) >= MinPhoneDigits /\ Len(n) <= MaxPhoneDigits
    /\ \A x \in PhoneTexts \cup {f.contact_number : f \in PeopleForms} :
            /\ format_phone_number(format_phone_number(x)) = format_phone_number(x)
            /\ validate_phone_number(x) = validate_phone_number(format_phone_number(x))

\* C27 witness: a patient holds the number that was typed with a '+' and
\* blanks, and a doctor holds the number that was typed with dashes, left by
\* an edit (the country code beside it is one add_doctor refuses).
C27_Witness ==
    /\ \E i \in DOMAIN patients :
            patients[i].contact_number = PhoneDigits(MaxPhoneDigits)
    /\ \E i \in DOMAIN doctors :
            /\ doctors[i].contact_number = PhoneDigits(MinPhoneDigits)
            /\ doctors[i].country_code = UnknownCode

\* the answers with which an edit of a patient or doctor is refused
EditRejections == {"InvalidPhone", "FutureBirthDate", "Error"}

\* C28: an edit of a patient or doctor that is rejected changes no stored
\* record: no step of the rejected request changes the state.
C28_RejectedEditChangesNothing ==
    /\ \A id \in DOMAIN patients : \A form \in PeopleForms :
            EditPatientResult(id, form) \in EditRejections
                => ~ENABLED (edit_patient(id, form) /\ vars' # vars)
    /\ \A id \in DOMAIN doctors : \A form \in PeopleForms :
            EditDoctorResult(id, form) \in EditRejections
                => ~ENABLED (edit_doctor(id, form) /\ vars' # vars)

\* C28, the later requests: a stored record changes only in a step that is an
\* accepted edit of it.
C28_OnlyAcceptedEditsChange ==
    [][/\ \A id \in DOMAIN patients \cap DOMAIN patients' :
            patients'[id] # patients[id] =>
                \E form \in PeopleForms :
                    /\ EditPatientResult(id, form) = "Ok"
                    /\ patients'[id] =
                            [EditPatientAssigned(patients[id], form)
                                EXCEPT !.contact_number =
                                    format_phone_number(form.contact_number)]
       /\ \A id \in DOMAIN doctors \cap DOMAIN doctors' :
            doctors'[id] # doctors[id] =>
                \E form \in PeopleForms :
                    /\ EditDoctorResult(id, form) = "Ok"
                    /\ doctors'[id] =
                            [EditDoctorAssigned(doctors[id], form)
                                EXCEPT !.contact_number =
                                    format_phone_number(form.contact_number)]]_vars

\* C28 witness: patient Ann is stored on the day an edit of her record that
\* names her Bea, with a date of birth in the future, is rejected; and a
\* doctor Ann is stored, whose edit to Bea with a short number is rejected.
C28_Witness ==
    /\ \E id \in DOMAIN patients : \E form \in PeopleForms :
            /\ patients[id].name = "Ann" /\ form.name = "Bea"
            /\ form.country_code # patients[id].country_code
            /\ EditPatientResult(id, form) = "FutureBirthDate"
    /\ \E id \in DOMAIN doctors : \E form \in PeopleForms :
            /\ doctors[id].name = "Ann" /\ form.name = "Bea"
            /\ EditDoctorResult(id, form) = "InvalidPhone"

\* C30: every stored patient and doctor has a country code that
\* validate_country_code accepts.
C30_StoredCountryCodesValid ==
    /\ \A i \in DOMAIN patients : validate_country_code(patients[i].country_code)
    /\ \A i \in DOMAIN doctors : validate_country_code(doctors[i].country_code)

\* C30 narrowed to the records as they are added: a record new in a step has
\* a country code that validate_country_code accepts.
C30_AddedCountryCodesValid ==
    [][/\ \A i \in DOMAIN patients' \ DOMAIN patients :
            validate_country_code(patients'[i].country_code)
       /\ \A i \in DOMAIN doctors' \ DOMAIN doctors :
            validate_country_code(doctors'[i].country_code)]_vars

=============================================================================
